---- MODULE Spec2Model ----
(***************************************************************************)
(* State-machine model of src/src/actions/concurrent_llm.py:               *)
(* evaluation_sub_agent_action fans out num_calls make_llm_call coroutines *)
(* through asyncio.gather and compiles a summary of their result records.  *)
(*                                                                         *)
(* Python values are modelled as tagged records: [kind |-> "null"] is      *)
(* None, [kind |-> "absent"] a missing dict key, [kind |-> "str"],         *)
(* [kind |-> "int"], [kind |-> "list"], [kind |-> "dict"] the JSON types.  *)
(* Configuration strings carry their characters (field chars) so that      *)
(* str.startswith is computed, JSON strings are atomic (field val).        *)
(***************************************************************************)
EXTENDS Integers, Sequences, FiniteSets, TLC

VARIABLES
    LLM_API_KEY,        \* module global, line 17
    LLM_BASE_URL,       \* module global, line 18
    LLM_MODEL,          \* module global, line 19
    LLM_TEMPERATURE,    \* module global, line 20 (in tenths)
    context,            \* argument of evaluation_sub_agent_action
    num_calls,          \* argument of evaluation_sub_agent_action
    system_prompt,      \* argument of evaluation_sub_agent_action
    bpc,                \* position of evaluation_sub_agent_action
    exc,                \* exception that left evaluation_sub_agent_action
    tasks,              \* call_id -> position of that make_llm_call
    client,             \* call_id -> state of that call's httpx.AsyncClient
    requests,           \* HTTP POSTs issued so far, in order
    outcome,            \* call_id -> what the network did with its POST
    res,                \* call_id -> value returned by make_llm_call
    completion,         \* call_ids in the order their calls completed
    results,            \* local `results` after gather (line 146)
    successful_calls,   \* local, line 149
    failed_calls,       \* local, line 150
    total_tokens,       \* local, line 151
    returned,           \* value returned by evaluation_sub_agent_action
    env,                \* os.environ as keyvault.py reads it
    vault,              \* what Azure does: client construction and lookups
    secret_name,        \* local of get_llm_api_key, keyvault.py line 60
    kv_client,          \* KeyVaultClient built at keyvault.py line 61
    kv_pc               \* position of get_llm_api_key

vars == <<LLM_API_KEY, LLM_BASE_URL, LLM_MODEL, LLM_TEMPERATURE, context,
          num_calls, system_prompt, bpc, exc, tasks, client, requests,
          outcome, res, completion, results, successful_calls,
          failed_calls, total_tokens, returned, env, vault, secret_name,
          kv_client, kv_pc>>

\* get_llm_api_key's state; it is settled once the module is imported.
kv == <<env, vault, secret_name, kv_client, kv_pc>>

config == <<LLM_API_KEY, LLM_BASE_URL, LLM_MODEL, LLM_TEMPERATURE, context,
            num_calls, system_prompt, kv>>

summary == <<results, successful_calls, failed_calls, total_tokens, returned>>

---------------------------------------------------------------------------
(* Bounds *)

MaxCalls == 2

---------------------------------------------------------------------------
(* Python / JSON values *)

None == [kind |-> "null"]
Absent == [kind |-> "absent"]
Str(s) == [kind |-> "str", val |-> s]
Num(n) == [kind |-> "int", val |-> n]
List(items) == [kind |-> "list", items |-> items]
CfgStr(cs) == [kind |-> "str", chars |-> cs]

\* Variant of CfgFalsy: only None counts as missing.
CfgFalsyNoneOnly(v) == v.kind = "null"

\* Python truthiness of a configuration value (None or "" is falsy).
CfgFalsy(v) == v.kind = "null" \/ (v.kind = "str" /\ v.chars = <<>>)

\* Python truthiness of a JSON value.
JsonFalsy(v) ==
    CASE v.kind = "null" -> TRUE
      [] v.kind = "list" -> v.items = <<>>
      [] v.kind = "str" -> v.val = ""
      [] v.kind = "int" -> v.val = 0
      [] OTHER -> FALSE

\* dict.get(key, default) on a field that holds Absent for a missing key.
DictGet(field, default) == IF field.kind = "absent" THEN default ELSE field

\* Variant of StartsWith: the prefix found anywhere in the string.
StartsWithAnywhere(s, prefix) ==
    \E k \in 1..Len(s) :
        /\ k + Len(prefix) - 1 <= Len(s)
        /\ SubSeq(s, k, k + Len(prefix) - 1) = prefix

\* str.startswith
StartsWith(s, prefix) ==
    /\ Len(s) >= Len(prefix)
    /\ SubSeq(s, 1, Len(prefix)) = prefix

Gpt5Prefix == <<"g", "p", "t", "-", "5">>

ClientTimeout == 30

---------------------------------------------------------------------------
(* Inputs: configuration, arguments and what the network can answer *)

ApiKeys == {None, CfgStr(<<>>), CfgStr(<<"k">>)}
BaseUrls == {None, CfgStr(<<>>), CfgStr(<<"u">>)}
Models ==
    {None, CfgStr(<<>>),
     CfgStr(<<"g", "p", "t", "-", "5", "-", "n">>),
     CfgStr(<<"g", "p", "t", "-", "4", "o">>),
     CfgStr(<<"x", "g", "p", "t", "-", "5">>),
     CfgStr(<<"g", "p", "t">>)}
Temperatures == {0, 3}
Contexts == {"Test context"}
SystemPrompts == {"Test prompt"}
NumCallsChoices == (0 - 1)..MaxCalls

Dict(choices, usage) == [kind |-> "dict", choices |-> choices, usage |-> usage]
Choice(message) == [kind |-> "dict", message |-> message]
Message(content) == [kind |-> "dict", content |-> content]
Usage(total) == [kind |-> "dict", total_tokens |-> total]

GoodChoices == List(<<Choice(Message(Str("Success")))>>)

ChoicesValues ==
    {Absent, None, List(<<>>), Str("abc"),
     List(<<Str("x")>>),
     List(<<Choice(Absent)>>),
     List(<<Choice(None)>>),
     List(<<Choice(Message(Absent))>>),
     List(<<Choice(Message(None))>>),
     List(<<Choice(Message(Str("Test response")))>>),
     GoodChoices}

UsageValues ==
    {Absent, None, Usage(Absent), Usage(None), Usage(Str("many")),
     Usage(Num(0 - 5)), Usage(Num(50)), Usage(Num(60))}

\* Parsed bodies of a 2xx response; "invalid" is a body json() rejects.
Bodies ==
    {[kind |-> "invalid"], List(<<>>)}
    \cup {Dict(c, Usage(Num(50))) : c \in ChoicesValues}
    \cup {Dict(GoodChoices, u) : u \in UsageValues}
    \cup {Dict(List(<<Choice(Message(None))>>), Usage(None))}

Response(status, reason, text, body) ==
    [kind |-> "response", status |-> status, reason |-> reason,
     text |-> text, body |-> body]
Raise(cls, msg) == [kind |-> "raise", cls |-> cls, msg |-> msg]

\* Everything client.post / raise_for_status / json can do for one call.
Outcomes ==
    {Raise("RequestError", "timed out"), Raise("Exception", "API Error")}
    \cup {Response(500, "Internal Server Error", "boom", [kind |-> "invalid"]),
          Response(404, "Not Found", "nope", [kind |-> "invalid"]),
          Response(302, "Found", "", [kind |-> "invalid"]),
          Response(201, "Created", "", Dict(GoodChoices, Usage(Num(60))))}
    \cup {Response(200, "OK", "", b) : b \in Bodies}

NoOutcome == [kind |-> "none"]
NoResult == [kind |-> "none"]
NoException == [kind |-> "none"]
NotTracked == [kind |-> "none"]

---------------------------------------------------------------------------
(* make_llm_call *)

\* Lines 54-65: the request body; temperature is left out for gpt-5 models.
BuildPayload(model, temperature, prompt, ctx) ==
    [model |-> model,
     messages |-> <<[role |-> "system", content |-> prompt],
                    [role |-> "user", content |-> ctx]>>,
     temperature |-> IF ~CfgFalsy(model) /\ ~StartsWith(model.chars, Gpt5Prefix)
                     THEN Num(temperature)
                     ELSE Absent]

\* Lines 67-76: the POST as it leaves the client.
BuildRequest(call_id) ==
    [call_id |-> call_id,
     url |-> <<LLM_BASE_URL, "/chat/completions">>,
     authorization |-> <<"Bearer", LLM_API_KEY>>,
     timeout |-> ClientTimeout,
     json |-> BuildPayload(LLM_MODEL, LLM_TEMPERATURE, system_prompt, context)]

ErrorMsg(prefix, status, reason, detail) ==
    [kind |-> "str", prefix |-> prefix, status |-> status,
     reason |-> reason, detail |-> detail]

\* Lines 114-120, 124-130, 134-140: the three failure records.
FailureResult(call_id, error_msg) ==
    [call_id |-> call_id, success |-> FALSE, error |-> error_msg,
     response |-> None, tokens_used |-> Num(0)]

\* Lines 98-103: the success record (it has no "error" key).
SuccessResult(call_id, message_content, tokens_used) ==
    [call_id |-> call_id, success |-> TRUE, error |-> Absent,
     response |-> message_content, tokens_used |-> tokens_used]

\* Variant of IsSuccessStatus: only 200 passes.
IsSuccessStatusOnly200(status) == status = 200

\* Variant of IsSuccessStatus: only 4xx and 5xx count as errors.
IsSuccessStatusBelow400(status) == status < 400

\* httpx.Response.raise_for_status raises unless the status is 2xx.
IsSuccessStatus(status) == status >= 200 /\ status <= 299

\* Lines 94-96: content of the first choice and the token count.  The
\* values are passed through as they are found in the body.
ExtractTokens(usage) ==
    IF usage.kind = "dict" THEN DictGet(usage.total_tokens, Num(0)) ELSE Num(0)

\* Variant of ParseBody: a body without choices is taken as an empty reply.
ParseBodyLenient(call_id, body) ==
    IF body.kind # "dict"
    THEN SuccessResult(call_id, Str(""), Num(0))
    ELSE LET choices == DictGet(body.choices, List(<<>>)) IN
         IF JsonFalsy(choices) \/ choices.kind # "list"
         THEN SuccessResult(call_id, Str(""),
                            ExtractTokens(DictGet(body.usage, Usage(Absent))))
         ELSE LET first == choices.items[1] IN
              IF first.kind # "dict"
              THEN FailureResult(call_id, ErrorMsg("Unexpected error", 0, "", "AttributeError get"))
              ELSE LET message == DictGet(first.message, Message(Absent)) IN
                   IF message.kind # "dict"
                   THEN FailureResult(call_id, ErrorMsg("Unexpected error", 0, "", "AttributeError get"))
                   ELSE SuccessResult(call_id,
                                      DictGet(message.content, Str("")),
                                      ExtractTokens(DictGet(body.usage, Usage(Absent))))

\* Lines 83-103: a 2xx body turned into a record; every exception raised
\* on the way is caught at line 131.
ParseBody(call_id, body) ==
    IF body.kind = "invalid"
    THEN FailureResult(call_id, ErrorMsg("Unexpected error", 0, "", "JSONDecodeError"))
    ELSE IF body.kind # "dict"
    THEN FailureResult(call_id, ErrorMsg("Unexpected error", 0, "", "Expected dict response"))
    ELSE LET choices == DictGet(body.choices, List(<<>>)) IN
         IF JsonFalsy(choices)
         THEN FailureResult(call_id, ErrorMsg("Unexpected error", 0, "", "No choices in response"))
         ELSE IF choices.kind # "list"
         THEN FailureResult(call_id, ErrorMsg("Unexpected error", 0, "", "choices[0] failed"))
         ELSE LET first == choices.items[1] IN
              IF first.kind # "dict"
              THEN FailureResult(call_id, ErrorMsg("Unexpected error", 0, "", "AttributeError get"))
              ELSE LET message == DictGet(first.message, Message(Absent)) IN
                   IF message.kind # "dict"
                   THEN FailureResult(call_id, ErrorMsg("Unexpected error", 0, "", "AttributeError get"))
                   ELSE SuccessResult(call_id,
                                      DictGet(message.content, Str("")),
                                      ExtractTokens(DictGet(body.usage, Usage(Absent))))

\* Variant of MakeLlmCall: a call that finishes after a sibling has failed
\* is cancelled instead of being interpreted.
MakeLlmCallCancelling(call_id, o) ==
    IF \E j \in DOMAIN tasks : tasks[j] = "done" /\ ~res[j].success
    THEN FailureResult(call_id, ErrorMsg("Unexpected error", 0, "", "cancelled"))
    ELSE IF o.kind = "raise"
    THEN IF o.cls = "RequestError"
         THEN FailureResult(call_id, ErrorMsg("Request failed", 0, "", o.msg))
         ELSE FailureResult(call_id, ErrorMsg("Unexpected error", 0, "", o.msg))
    ELSE IF ~IsSuccessStatus(o.status)
    THEN FailureResult(call_id, ErrorMsg("HTTP", o.status, o.reason, o.text))
    ELSE ParseBody(call_id, o.body)

\* Lines 70-140 after the POST resumes: the record make_llm_call returns.
MakeLlmCall(call_id, o) ==
    IF o.kind = "raise"
    THEN IF o.cls = "RequestError"
         THEN FailureResult(call_id, ErrorMsg("Request failed", 0, "", o.msg))
         ELSE FailureResult(call_id, ErrorMsg("Unexpected error", 0, "", o.msg))
    ELSE IF ~IsSuccessStatus(o.status)
    THEN FailureResult(call_id, ErrorMsg("HTTP", o.status, o.reason, o.text))
    ELSE ParseBody(call_id, o.body)

---------------------------------------------------------------------------
(* evaluation_sub_agent_action *)

\* Variant of CallIds: range(num_calls + 1)
CallIdsInclusive == 0..num_calls

\* range(num_calls)
CallIds == 0..(num_calls - 1)

\* Variant of ConfigError: the checks run in the order model, base URL, key.
ConfigErrorModelFirst ==
    IF CfgFalsy(LLM_MODEL) THEN "LLM_MODEL is required"
    ELSE IF CfgFalsy(LLM_BASE_URL) THEN "LLM_BASE_URL is required"
    ELSE IF CfgFalsy(LLM_API_KEY) THEN "LLM API key is required"
    ELSE ""

\* Lines 42-49: the first failing check decides the ValueError.
ConfigError ==
    IF CfgFalsy(LLM_API_KEY) THEN "LLM API key is required"
    ELSE IF CfgFalsy(LLM_BASE_URL) THEN "LLM_BASE_URL is required"
    ELSE IF CfgFalsy(LLM_MODEL) THEN "LLM_MODEL is required"
    ELSE ""

\* Variant of Gather: values collected as the awaitables finish.
GatherAsCompleted(values, order) == [k \in 1..Len(order) |-> values[order[k]]]

\* asyncio.gather: the values of the awaitables in the order they were
\* passed, whatever the order they finished in.
Gather(values, order) == [k \in 1..Len(order) |-> values[k - 1]]

TypeError == [kind |-> "TypeError"]

\* Variant of PySum: the running total is overwritten, not accumulated.
RECURSIVE PySumOverwriting(_, _)
PySumOverwriting(acc, rs) ==
    IF rs = <<>> THEN acc
    ELSE IF Head(rs).tokens_used.kind # "int" THEN TypeError
    ELSE PySumOverwriting(Head(rs).tokens_used, Tail(rs))

\* Line 151: sum() folds from 0, left to right, and raises TypeError on
\* the first value that int cannot be added to.
RECURSIVE PySum(_, _)
PySum(acc, rs) ==
    IF rs = <<>> THEN acc
    ELSE IF Head(rs).tokens_used.kind # "int" THEN TypeError
    ELSE PySum(Num(acc.val + Head(rs).tokens_used.val), Tail(rs))

\* Variant of FailedCalls: a failure recognised by its null response.
FailedCallsByResponse(rs) == SelectSeq(rs, LAMBDA r : r.response.kind = "null")

\* Line 149
SuccessfulCalls(rs) == SelectSeq(rs, LAMBDA r : r.success)
\* Line 150
FailedCalls(rs) == SelectSeq(rs, LAMBDA r : ~r.success)

---------------------------------------------------------------------------
(* State machine *)

Init ==
    /\ LLM_API_KEY \in ApiKeys
    /\ LLM_BASE_URL \in BaseUrls
    /\ LLM_MODEL \in Models
    /\ LLM_TEMPERATURE \in Temperatures
    /\ context \in Contexts
    /\ num_calls \in NumCallsChoices
    /\ system_prompt \in SystemPrompts
    /\ bpc = "start"
    /\ exc = NoException
    /\ tasks = <<>>
    /\ client = <<>>
    /\ requests = <<>>
    /\ outcome = <<>>
    /\ res = <<>>
    /\ completion = <<>>
    /\ results = <<>>
    /\ successful_calls = <<>>
    /\ failed_calls = <<>>
    /\ total_tokens = Num(0)
    /\ returned = None
    /\ env = NotTracked
    /\ vault = NotTracked
    /\ secret_name = None
    /\ kv_client = None
    /\ kv_pc = "done"

\* Lines 40-49: a missing setting raises before anything is created.
RaiseConfigError ==
    /\ bpc = "start"
    /\ ConfigError # ""
    /\ bpc' = "raised"
    /\ exc' = [kind |-> "ValueError", msg |-> ConfigError]
    /\ UNCHANGED <<config, tasks, client, requests, outcome, res,
                   completion, summary>>

\* Lines 40-146: the checks pass, one coroutine per call_id is created and
\* handed to gather, and the action suspends on the await.
Launch ==
    /\ bpc = "start"
    /\ ConfigError = ""
    /\ bpc' = "gathering"
    /\ tasks' = [i \in CallIds |-> "created"]
    /\ client' = [i \in CallIds |-> "none"]
    /\ outcome' = [i \in CallIds |-> NoOutcome]
    /\ res' = [i \in CallIds |-> NoResult]
    /\ UNCHANGED <<config, exc, requests, completion, summary>>

\* Variant of StartCall: the calls are awaited one after the other, a
\* request leaves only when every earlier call has completed.
StartCallChained(i) ==
    /\ bpc = "gathering"
    /\ tasks[i] = "created"
    /\ \A j \in CallIds : j < i => tasks[j] = "done"
    /\ tasks' = [tasks EXCEPT ![i] = "posted"]
    /\ client' = [client EXCEPT ![i] = "open"]
    /\ requests' = Append(requests, BuildRequest(i))
    /\ UNCHANGED <<config, bpc, exc, outcome, res, completion, summary>>

\* Lines 54-76: the task runs to its first suspension: it builds the
\* payload, opens its own client and sends the POST.  The event loop
\* starts the tasks in the order gather received them.
StartCall(i) ==
    /\ bpc = "gathering"
    /\ tasks[i] = "created"
    /\ \A j \in CallIds : j < i => tasks[j] # "created"
    /\ tasks' = [tasks EXCEPT ![i] = "posted"]
    /\ client' = [client EXCEPT ![i] = "open"]
    /\ requests' = Append(requests, BuildRequest(i))
    /\ UNCHANGED <<config, bpc, exc, outcome, res, completion, summary>>

\* Variant of CompleteCall: a call whose first attempt failed is sent once
\* more instead of finishing with its failure record.
CompleteCallRetrying(i, o) ==
    /\ bpc = "gathering"
    /\ tasks[i] = "posted"
    /\ client' = [client EXCEPT ![i] = "closed"]
    /\ IF /\ ~MakeLlmCall(i, o).success
          /\ Cardinality({k \in 1..Len(requests) : requests[k].call_id = i}) < 2
       THEN /\ tasks' = [tasks EXCEPT ![i] = "created"]
            /\ UNCHANGED <<outcome, res, completion>>
       ELSE /\ tasks' = [tasks EXCEPT ![i] = "done"]
            /\ outcome' = [outcome EXCEPT ![i] = o]
            /\ res' = [res EXCEPT ![i] = MakeLlmCall(i, o)]
            /\ completion' = Append(completion, i)
    /\ UNCHANGED <<config, bpc, exc, requests, summary>>

\* Variant of CompleteCall: the client is closed on the success path only.
CompleteCallLeaking(i, o) ==
    /\ bpc = "gathering"
    /\ tasks[i] = "posted"
    /\ tasks' = [tasks EXCEPT ![i] = "done"]
    /\ client' = [client EXCEPT ![i] =
                     IF MakeLlmCall(i, o).success THEN "closed" ELSE "open"]
    /\ outcome' = [outcome EXCEPT ![i] = o]
    /\ res' = [res EXCEPT ![i] = MakeLlmCall(i, o)]
    /\ completion' = Append(completion, i)
    /\ UNCHANGED <<config, bpc, exc, requests, summary>>

\* Lines 72-140: the POST ends with outcome o, the client is left and the
\* task finishes with its record.
CompleteCall(i, o) ==
    /\ bpc = "gathering"
    /\ tasks[i] = "posted"
    /\ tasks' = [tasks EXCEPT ![i] = "done"]
    /\ client' = [client EXCEPT ![i] = "closed"]
    /\ outcome' = [outcome EXCEPT ![i] = o]
    /\ res' = [res EXCEPT ![i] = MakeLlmCall(i, o)]
    /\ completion' = Append(completion, i)
    /\ UNCHANGED <<config, bpc, exc, requests, summary>>

\* Variant of GatherAndReturn: the wait ends with the first finished task
\* (FIRST_COMPLETED) and the records present by then are compiled.
GatherAndReturnEarly ==
    /\ bpc = "gathering"
    /\ \E i \in CallIds : tasks[i] = "done"
    /\ LET rs == [k \in 1..Len(completion) |-> res[completion[k]]]
           total == PySum(Num(0), rs)
       IN  /\ results' = rs
           /\ successful_calls' = SuccessfulCalls(rs)
           /\ failed_calls' = FailedCalls(rs)
           /\ IF total = TypeError
              THEN /\ bpc' = "raised"
                   /\ exc' = [kind |-> "TypeError", msg |-> "unsupported operand type(s) for +"]
                   /\ UNCHANGED <<total_tokens, returned>>
              ELSE /\ bpc' = "returned"
                   /\ total_tokens' = total
                   /\ returned' = rs
                   /\ exc' = exc
    /\ UNCHANGED <<config, tasks, client, requests, outcome, res, completion>>

\* Lines 146-158: gather resumes once every task is done; the summary is
\* compiled and the list returned, unless sum() raises.
GatherAndReturn ==
    /\ bpc = "gathering"
    /\ \A i \in CallIds : tasks[i] = "done"
    /\ LET rs == Gather(res, completion)
           total == PySum(Num(0), rs)
       IN  /\ results' = rs
           /\ successful_calls' = SuccessfulCalls(rs)
           /\ failed_calls' = FailedCalls(rs)
           /\ IF total = TypeError
              THEN /\ bpc' = "raised"
                   /\ exc' = [kind |-> "TypeError", msg |-> "unsupported operand type(s) for +"]
                   /\ UNCHANGED <<total_tokens, returned>>
              ELSE /\ bpc' = "returned"
                   /\ total_tokens' = total
                   /\ returned' = rs
                   /\ exc' = exc
    /\ UNCHANGED <<config, tasks, client, requests, outcome, res, completion>>

Next ==
    \/ RaiseConfigError
    \/ Launch
    \/ \E i \in CallIds : StartCall(i)
    \/ \E i \in CallIds, o \in Outcomes : CompleteCall(i, o)
    \/ GatherAndReturn

Spec == Init /\ [][Next]_vars

\* The event loop runs every ready step, and every POST ends within the
\* client's timeout (line 71) with a response or an exception.
Fairness ==
    /\ WF_vars(RaiseConfigError)
    /\ WF_vars(Launch)
    /\ WF_vars(\E i \in CallIds : StartCall(i))
    /\ WF_vars(\E i \in CallIds, o \in Outcomes : CompleteCall(i, o))
    /\ WF_vars(GatherAndReturn)

FairSpec == Init /\ [][Next]_vars /\ Fairness

---------------------------------------------------------------------------
(* get_llm_api_key, run when concurrent_llm.py is imported (line 17) *)

\* "llm-api-key", the default of keyvault.py line 60
DefaultSecretName ==
    CfgStr(<<"l", "l", "m", "-", "a", "p", "i", "-", "k", "e", "y">>)
CustomSecretName == CfgStr(<<"n">>)

EnvValues == {None, CfgStr(<<>>), CfgStr(<<"e">>)}
Environments ==
    [AZURE_KEY_VAULT_URL : {None, CfgStr(<<>>), CfgStr(<<"v">>)},
     LLM_API_KEY : EnvValues,
     LLM_API_KEY_SECRET_NAME : {None, CustomSecretName}]

\* A lookup raises (not found, credential unavailable, network) or
\* yields a secret whose value is a string or None.
LookupOutcomes ==
    {[kind |-> "raise"]}
    \cup {[kind |-> "secret", value |-> v] : v \in {None, CfgStr(<<"s">>)}}

\* ctor: whether AzureCliCredential() / SecretClient() raise.
Vaults ==
    [ctor : {"ok", "raises"},
     lookup : [{DefaultSecretName, CustomSecretName} -> LookupOutcomes]]

\* os.getenv(name, default)
GetEnv(value, default) == IF value = None THEN default ELSE value

InitKV ==
    /\ env \in Environments
    /\ vault \in Vaults
    /\ secret_name = None
    /\ kv_client = None
    /\ kv_pc = "start"
    /\ LLM_API_KEY = None
    /\ LLM_BASE_URL = None
    /\ LLM_MODEL = None
    /\ LLM_TEMPERATURE = 3
    /\ context = "Test context"
    /\ num_calls = 0
    /\ system_prompt = "Test prompt"
    /\ bpc = "import"
    /\ exc = NoException
    /\ tasks = <<>>
    /\ client = <<>>
    /\ requests = <<>>
    /\ outcome = <<>>
    /\ res = <<>>
    /\ completion = <<>>
    /\ results = <<>>
    /\ successful_calls = <<>>
    /\ failed_calls = <<>>
    /\ total_tokens = Num(0)
    /\ returned = None

batch == <<LLM_BASE_URL, LLM_MODEL, LLM_TEMPERATURE, context, num_calls,
           system_prompt, bpc, exc, tasks, client, requests, outcome, res,
           completion, summary>>

\* keyvault.py line 60
ReadSecretName ==
    /\ kv_pc = "start"
    /\ secret_name' = GetEnv(env.LLM_API_KEY_SECRET_NAME, DefaultSecretName)
    /\ kv_pc' = "named"
    /\ UNCHANGED <<batch, LLM_API_KEY, env, vault, kv_client>>

\* KeyVaultClient() raises: no vault URL (lines 23-25) or the credential
\* or SecretClient constructor fails (lines 28-29).
ConstructorRaises ==
    \/ CfgFalsy(env.AZURE_KEY_VAULT_URL)
    \/ vault.ctor = "raises"

\* keyvault.py lines 61, 17-31: the client is built.
ConstructClient ==
    /\ kv_pc = "named"
    /\ ~ConstructorRaises
    /\ kv_client' = [vault_url |-> env.AZURE_KEY_VAULT_URL]
    /\ kv_pc' = "constructed"
    /\ UNCHANGED <<batch, LLM_API_KEY, env, vault, secret_name>>

\* keyvault.py lines 61, 63-66 and concurrent_llm.py line 17: the
\* constructor raises, the except branch returns the environment variable.
FallBackToEnvironment ==
    /\ kv_pc = "named"
    /\ ConstructorRaises
    /\ LLM_API_KEY' = env.LLM_API_KEY
    /\ kv_pc' = "done"
    /\ UNCHANGED <<batch, env, vault, secret_name, kv_client>>

\* KeyVaultClient.get_secret, keyvault.py lines 42-50: the secret's value,
\* or None when the lookup raises.
GetSecret(name) ==
    IF vault.lookup[name].kind = "raise" THEN None
    ELSE vault.lookup[name].value

\* keyvault.py line 62 and concurrent_llm.py line 17
ReturnSecret ==
    /\ kv_pc = "constructed"
    /\ LLM_API_KEY' = GetSecret(secret_name)
    /\ kv_pc' = "done"
    /\ UNCHANGED <<batch, env, vault, secret_name, kv_client>>

NextKV ==
    \/ ReadSecretName
    \/ ConstructClient
    \/ FallBackToEnvironment
    \/ ReturnSecret

SpecKV == InitKV /\ [][NextKV]_vars

---------------------------------------------------------------------------
(* Properties *)

Done(i) == i \in DOMAIN tasks /\ tasks[i] = "done"

\* gather has resumed: the local `results` holds the gathered list.
Gathered ==
    \/ bpc = "returned"
    \/ bpc = "raised" /\ exc.kind = "TypeError"

\* A setting that is unset or empty, stated on the values themselves.
Unset(v) == v = None \/ v = CfgStr(<<>>)
ConfigMissing == Unset(LLM_API_KEY) \/ Unset(LLM_BASE_URL) \/ Unset(LLM_MODEL)

\* The outcome of the tests' well-formed reply with the given token count.
GoodReply(tokens) == Response(200, "OK", "", Dict(GoodChoices, Usage(Num(tokens))))

\* C1: for num_calls = k >= 1 and every completion order, the gathered
\* list, and the list the action returns, has exactly k records and
\* position i holds the record of call i (call_id i).
C1_ResultsInCallIdOrder ==
    (num_calls >= 1 /\ Gathered) =>
        /\ Len(results) = num_calls
        /\ \A k \in 1..Len(results) :
              /\ results[k].call_id = k - 1
              /\ results[k] = res[k - 1]
        /\ bpc = "returned" => returned = results

\* C1 witness: a batch returned although call 1 finished before call 0.
C1_Witness ==
    /\ bpc = "returned"
    /\ num_calls >= 2
    /\ completion[1] = 1
    /\ returned[1].call_id = 0

\* C2: once the configuration checks have passed the action never raises,
\* whatever the calls' outcomes are.
C2_NeverRaisesAfterLaunch ==
    ~ConfigMissing => bpc # "raised"

\* C3: the record of call i depends on call i's outcome only: calls with
\* the same outcome have the same record up to call_id, a well-formed reply
\* is a success with its content and tokens whatever happened to the
\* siblings, and with two calls, one well-formed and one throwing, the
\* batch holds exactly one success carrying the content and one failure.
C3_SiblingIsolation ==
    /\ \A i, j \in DOMAIN tasks :
          (Done(i) /\ Done(j) /\ outcome[i] = outcome[j]) =>
              res[i] = [res[j] EXCEPT !.call_id = i]
    /\ \A i \in DOMAIN tasks :
          (Done(i) /\ outcome[i] = GoodReply(50)) =>
              /\ res[i].success
              /\ res[i].response = Str("Success")
              /\ res[i].tokens_used = Num(50)
    /\ \A i \in DOMAIN tasks :
          (Done(i) /\ outcome[i].kind = "raise") => ~res[i].success
    /\ (/\ bpc = "returned"
        /\ num_calls = 2
        /\ \E i, j \in CallIds :
              /\ outcome[i] = GoodReply(50)
              /\ outcome[j] = Raise("Exception", "API Error")) =>
           /\ Len(successful_calls) = 1
           /\ Len(failed_calls) = 1
           /\ successful_calls[1].response = Str("Success")

\* C3 witness: a call succeeded after a sibling had already failed.
C3_Witness ==
    /\ bpc = "returned"
    /\ num_calls = 2
    /\ completion = <<0, 1>>
    /\ outcome[0] = Raise("Exception", "API Error")
    /\ outcome[1] = GoodReply(50)
    /\ returned[2].success

\* C4: with the API key, the base URL or the model unset or empty the
\* action ends in a ValueError, no call is created, no request is sent and
\* nothing is returned.
C4_ConfigErrorBeforeAnyCall ==
    ConfigMissing =>
        /\ tasks = <<>>
        /\ requests = <<>>
        /\ returned = None
        /\ bpc \in {"start", "raised"}
        /\ bpc = "raised" => exc.kind = "ValueError"

\* C4 witness: the action raised on an empty (not None) API key.
C4_Witness ==
    /\ bpc = "raised"
    /\ LLM_API_KEY = CfgStr(<<>>)
    /\ ~Unset(LLM_BASE_URL)
    /\ ~Unset(LLM_MODEL)
    /\ requests = <<>>

\* C5: in the compiled summary every gathered record is counted exactly
\* once: successful_calls + failed_calls = total_calls, which is num_calls.
C5_CountsAddUp ==
    Gathered =>
        /\ Len(successful_calls) + Len(failed_calls) = Len(results)
        /\ num_calls >= 0 => Len(successful_calls) + Len(failed_calls) = num_calls
        /\ \A k \in 1..Len(results) :
              (\E a \in 1..Len(successful_calls) : successful_calls[a] = results[k])
              # (\E b \in 1..Len(failed_calls) : failed_calls[b] = results[k])

\* C5 witness: a summary with a success and a failure.
C5_Witness ==
    /\ bpc = "returned"
    /\ Len(successful_calls) = 1
    /\ Len(failed_calls) = 1

\* Tokens call i contributes: its reported count, nothing when it failed.
Contribution(i) == IF res[i].success THEN res[i].tokens_used.val ELSE 0

RECURSIVE SumOver(_)
SumOver(ids) ==
    IF ids = {} THEN 0
    ELSE LET i == CHOOSE x \in ids : TRUE
         IN  Contribution(i) + SumOver(ids \ {i})

\* C6: the total compiled for a batch is the sum of tokens_used over all
\* its records, failed calls adding 0; two successes reporting 50 and 60
\* give 110.
C6_TotalTokensIsSum ==
    bpc = "returned" =>
        /\ total_tokens = Num(SumOver(CallIds))
        /\ (/\ num_calls = 2
            /\ outcome[0] = GoodReply(50)
            /\ outcome[1] = GoodReply(60)) => total_tokens = Num(110)

\* C6 witness: the batch of the 50 and 60 token replies was compiled.
C6_Witness ==
    /\ bpc = "returned"
    /\ num_calls = 2
    /\ outcome[0] = GoodReply(50)
    /\ outcome[1] = GoodReply(60)
    /\ total_tokens = Num(110)

\* C7: tokens_used of every record is a non-negative integer, 0 for a
\* failed call and 0 when usage or total_tokens is absent or malformed.
C7_TokensNonNegativeInteger ==
    \A i \in DOMAIN tasks :
        Done(i) =>
            /\ res[i].tokens_used.kind = "int"
            /\ res[i].tokens_used.val >= 0
            /\ ~res[i].success => res[i].tokens_used = Num(0)

\* C8: response is a string exactly when success is true, an error string
\* is present exactly when success is false, and a failed record has a
\* null response and 0 tokens.
C8_RecordMatchesSuccessFlag ==
    \A i \in DOMAIN tasks :
        Done(i) =>
            /\ res[i].success <=> res[i].response.kind = "str"
            /\ ~res[i].success <=> res[i].error.kind = "str"
            /\ ~res[i].success =>
                  /\ res[i].response = None
                  /\ res[i].tokens_used = Num(0)

\* A 2xx reply whose body is a mapping with a non-empty choices array.
HasChoices(o) ==
    /\ o.kind = "response"
    /\ o.status \in 200..299
    /\ o.body.kind = "dict"
    /\ o.body.choices.kind = "list"
    /\ o.body.choices.items # <<>>

\* ... whose first choice is a mapping with a mapping (or no) message.
HasMessage(o) ==
    /\ HasChoices(o)
    /\ o.body.choices.items[1].kind = "dict"
    /\ o.body.choices.items[1].message.kind \in {"dict", "absent"}

\* Content of the first choice's message, "" when there is none.
ContentOf(o) ==
    LET m == o.body.choices.items[1].message
    IN  IF m.kind = "absent" \/ m.content.kind = "absent" THEN Str("") ELSE m.content

\* usage.total_tokens, 0 when usage is no mapping or has no such entry.
TotalTokensOf(o) ==
    LET u == o.body.usage
    IN  IF u.kind # "dict" \/ u.total_tokens.kind = "absent" THEN Num(0)
        ELSE u.total_tokens

\* C9 as stated: every 2xx reply with a non-empty choices array is a
\* success with the first choice's content and usage.total_tokens.
C9_Original ==
    \A i \in DOMAIN tasks :
        (Done(i) /\ HasChoices(outcome[i])) =>
            /\ res[i].success
            /\ HasMessage(outcome[i]) =>
                  /\ res[i].response = ContentOf(outcome[i])
                  /\ res[i].tokens_used = TotalTokensOf(outcome[i])

\* C9 amended: a 2xx reply whose body is a mapping with a non-empty
\* choices array whose first element is a mapping with a message that is a
\* mapping or absent gives success=true, response = that message's content
\* ("" when absent) and tokens_used = usage.total_tokens (0 when usage is
\* no mapping or lacks it); when all N calls get such a reply the batch
\* compiles N successes with that content and count.
C9_WellFormedReplySucceeds ==
    /\ \A i \in DOMAIN tasks :
          (Done(i) /\ HasMessage(outcome[i])) =>
              /\ res[i].success
              /\ res[i].response = ContentOf(outcome[i])
              /\ res[i].tokens_used = TotalTokensOf(outcome[i])
    /\ (Gathered /\ \A i \in CallIds : HasMessage(outcome[i])) =>
          /\ Len(successful_calls) = Len(results)
          /\ failed_calls = <<>>
          /\ \A k \in 1..Len(results) :
                /\ results[k].response = ContentOf(outcome[k - 1])
                /\ results[k].tokens_used = TotalTokensOf(outcome[k - 1])

\* C9 witness: a batch of two whose replies were 200 and 201, both well formed.
C9_Witness ==
    /\ bpc = "returned"
    /\ num_calls = 2
    /\ outcome[0] = GoodReply(50)
    /\ outcome[1].kind = "response" /\ outcome[1].status = 201
    /\ Len(successful_calls) = 2

\* The model name begins with g, p, t, -, 5, tested character by character.
HasGpt5Prefix(model) ==
    /\ Len(model.chars) >= 5
    /\ \A k \in 1..5 : model.chars[k] = Gpt5Prefix[k]

\* C10: a request body has no temperature when the model name starts with
\* 'gpt-5' and otherwise has temperature = the configured LLM_TEMPERATURE.
C10_TemperatureByModelPrefix ==
    \A k \in 1..Len(requests) :
        /\ requests[k].json.model = LLM_MODEL
        /\ HasGpt5Prefix(LLM_MODEL) => requests[k].json.temperature = Absent
        /\ ~HasGpt5Prefix(LLM_MODEL) =>
              requests[k].json.temperature = Num(LLM_TEMPERATURE)

\* C10 witness: a request left for a model that merely contains 'gpt-5'.
C10_Witness ==
    /\ Len(requests) >= 1
    /\ LLM_MODEL = CfgStr(<<"x", "g", "p", "t", "-", "5">>)
    /\ requests[1].json.temperature = Num(LLM_TEMPERATURE)

\* A 2xx reply whose body is no mapping, or has no or an empty choices array.
LacksShape(o) ==
    /\ o.kind = "response"
    /\ o.status \in 200..299
    /\ \/ o.body.kind # "dict"
       \/ o.body.choices.kind \in {"absent", "null"}
       \/ o.body.choices = List(<<>>)

\* C11: a 2xx reply whose body is not a mapping, or whose choices is
\* missing or empty, is recorded as a failure with a descriptive error
\* ("Unexpected error: ..." naming what is wrong); it is never a success.
C11_MalformedBodyIsFailure ==
    \A i \in DOMAIN tasks :
        (Done(i) /\ LacksShape(outcome[i])) =>
            /\ ~res[i].success
            /\ res[i].response = None
            /\ res[i].error.kind = "str"
            /\ res[i].error.prefix = "Unexpected error"
            /\ res[i].error.detail \in
                  {"JSONDecodeError", "Expected dict response", "No choices in response"}
            /\ (outcome[i].body.kind = "dict") =>
                  res[i].error.detail = "No choices in response"

\* C11 witness: a batch returned holding the record of a body without choices.
C11_Witness ==
    /\ bpc = "returned"
    /\ \E i \in CallIds :
          /\ outcome[i] = Response(200, "OK", "", Dict(Absent, Usage(Num(50))))
          /\ ~returned[i + 1].success

\* C12: a non-2xx status gives success=false, response null, tokens_used 0
\* and an error holding the status code and the response body; a 2xx reply
\* never gets the HTTP error.
C12_HttpErrorIsFailure ==
    \A i \in DOMAIN tasks :
        (Done(i) /\ outcome[i].kind = "response") =>
            IF outcome[i].status \in 200..299
            THEN res[i].success \/ res[i].error.prefix # "HTTP"
            ELSE /\ ~res[i].success
                 /\ res[i].response = None
                 /\ res[i].tokens_used = Num(0)
                 /\ res[i].error.prefix = "HTTP"
                 /\ res[i].error.status = outcome[i].status
                 /\ res[i].error.detail = outcome[i].text

\* C12 witness: a 302 reply was recorded next to a 201 success.
C12_Witness ==
    /\ bpc = "returned"
    /\ num_calls = 2
    /\ outcome[0].kind = "response" /\ outcome[0].status = 302
    /\ outcome[1].kind = "response" /\ outcome[1].status = 201
    /\ ~returned[1].success
    /\ returned[2].success

\* C13: no partial-batch return: whenever the action has returned (or got
\* past gather), every one of its N calls has completed with a record and
\* none is still in flight.
C13_NoPartialReturn ==
    Gathered =>
        /\ \A i \in CallIds :
              /\ tasks[i] = "done"
              /\ res[i] # NoResult
              /\ outcome[i] # NoOutcome
        /\ Len(completion) = Cardinality(CallIds)
        /\ Len(results) = Cardinality(CallIds)

\* C13 witness: the batch returned after a failure came first and a
\* success last.
C13_Witness ==
    /\ bpc = "returned"
    /\ num_calls = 2
    /\ completion = <<1, 0>>
    /\ ~res[1].success
    /\ res[0].success

\* C14: the calls are in flight concurrently: while the batch is gathering,
\* a call that has not yet sent its request can always be started, however
\* many earlier requests are still unanswered, and every outstanding call
\* can complete whatever the state of the others is.
C14_CallsInFlightConcurrently ==
    bpc = "gathering" =>
        /\ (\E i \in CallIds : tasks[i] = "created") =>
              ENABLED (\E i \in CallIds : StartCall(i))
        /\ \A i \in CallIds :
              tasks[i] = "posted" =>
                  ENABLED (\E o \in Outcomes : CompleteCall(i, o))

\* C14 witness: all N >= 2 requests are outstanding and none has completed.
C14_Witness ==
    /\ bpc = "gathering"
    /\ num_calls >= 2
    /\ \A i \in CallIds : tasks[i] = "posted"
    /\ completion = <<>>
    /\ Len(requests) = num_calls

\* Number of POSTs issued so far for call i.
PostsOf(i) == Cardinality({k \in 1..Len(requests) : requests[k].call_id = i})

\* C15: no retries: every call_id issues at most one POST, exactly one
\* once it has started, whatever its outcome; a batch that got past gather
\* has issued exactly num_calls requests, one per call_id.
C15_NoRetries ==
    /\ \A k \in 1..Len(requests) : requests[k].call_id \in CallIds
    /\ \A i \in DOMAIN tasks :
          /\ PostsOf(i) <= 1
          /\ PostsOf(i) = 1 <=> tasks[i] \in {"posted", "done"}
    /\ Gathered =>
          /\ Len(requests) = Cardinality(CallIds)
          /\ num_calls >= 0 => Len(requests) = num_calls
          /\ \A i \in CallIds : PostsOf(i) = 1

\* C15 witness: two calls failed and the batch returned after two POSTs.
C15_Witness ==
    /\ bpc = "returned"
    /\ num_calls = 2
    /\ Len(failed_calls) = 2
    /\ Len(requests) = 2

\* C17: every call has a client of its own that is open exactly while its
\* request is outstanding and closed on every way out of the call; when
\* the batch has returned or raised no client is open.
C17_ClientReleasedOnEveryPath ==
    /\ DOMAIN client = DOMAIN tasks
    /\ \A i \in DOMAIN tasks :
          /\ client[i] = "none" <=> tasks[i] = "created"
          /\ client[i] = "open" <=> tasks[i] = "posted"
          /\ client[i] = "closed" <=> tasks[i] = "done"
    /\ bpc \in {"returned", "raised"} =>
          \A i \in DOMAIN client : client[i] = "closed"

\* C17 witness: the batch returned with the clients of a transport
\* error and of an HTTP error both closed.
C17_Witness ==
    /\ bpc = "returned"
    /\ num_calls = 2
    /\ outcome[0] = Raise("RequestError", "timed out")
    /\ outcome[1].kind = "response" /\ outcome[1].status = 500
    /\ client[0] = "closed"
    /\ client[1] = "closed"

\* C18: the configuration checks run in the order API key, base URL,
\* model and the first missing one decides the error: a missing API key
\* gives 'LLM API key is required' whatever the other two are, the base
\* URL error needs the API key present and the model error needs both.
C18_ConfigChecksInOrder ==
    (bpc = "raised" /\ exc.kind = "ValueError") =>
        /\ exc.msg \in {"LLM API key is required", "LLM_BASE_URL is required",
                        "LLM_MODEL is required"}
        /\ exc.msg = "LLM API key is required" <=> Unset(LLM_API_KEY)
        /\ exc.msg = "LLM_BASE_URL is required" <=>
              (~Unset(LLM_API_KEY) /\ Unset(LLM_BASE_URL))
        /\ exc.msg = "LLM_MODEL is required" <=>
              (~Unset(LLM_API_KEY) /\ ~Unset(LLM_BASE_URL) /\ Unset(LLM_MODEL))

\* C18 witness: all three settings are missing and the API key is reported.
C18_Witness ==
    /\ bpc = "raised"
    /\ LLM_API_KEY = None
    /\ LLM_BASE_URL = None
    /\ LLM_MODEL = None
    /\ exc.msg = "LLM API key is required"

\* C20: num_calls is not validated: with a valid configuration and
\* num_calls <= 0 nothing raises, no request is issued and the action
\* returns an empty list.
C20_NonPositiveNumCalls ==
    (~ConfigMissing /\ num_calls <= 0) =>
        /\ bpc # "raised"
        /\ exc = NoException
        /\ tasks = <<>>
        /\ requests = <<>>
        /\ bpc = "returned" => (returned = <<>> /\ total_tokens = Num(0))

\* C20 witness: the action returned the empty list for num_calls = -1.
C20_Witness ==
    /\ bpc = "returned"
    /\ num_calls < 0
    /\ returned = <<>>
    /\ requests = <<>>

\* C16: batch termination: with a valid configuration, and every request
\* ending within its timeout, the batch eventually returns its N results.
C16_BatchEventuallyReturns ==
    (bpc = "gathering") ~> (bpc = "returned")

\* The key can be retrieved from Key Vault: the client can be built and
\* the lookup of the secret succeeds.
Retrievable ==
    /\ ~Unset(env.AZURE_KEY_VAULT_URL)
    /\ vault.ctor = "ok"
    /\ vault.lookup[secret_name].kind = "secret"

\* C19: get_llm_api_key never raises, and whenever the key cannot be
\* retrieved from Key Vault (client not constructed, or lookup failed) it
\* returns the LLM_API_KEY environment variable.
C19_FallsBackToEnvironment ==
    /\ kv_pc \in {"start", "named", "constructed", "done"}
    /\ (kv_pc = "done" /\ ~Retrievable) => LLM_API_KEY = env.LLM_API_KEY

====
